---- MODULE Spec2Model ----
(***************************************************************************)
(* GrammarBuddyHelper (src/GrammarBuddyHelper.py): a BNF grammar container *)
(* and random sentence generator.                                          *)
(*                                                                         *)
(* A Python str is modelled as a sequence of one-character strings, so     *)
(* that str.split, str.strip, `in` and concatenation are computed as       *)
(* Python computes them.  The dict langMap is modelled as a sequence of    *)
(* records [k |-> key, v |-> list of alternatives] in insertion order,     *)
(* which is the iteration order of a Python dict.                          *)
(***************************************************************************)
EXTENDS Integers, Sequences, FiniteSets, TLC

VARIABLES
    langMap,    \* self.langMap of the object under study
    op,         \* the last call made, with its arguments
    result,     \* what that call returned, printed, wrote or raised
    stack       \* activation records of the running generate() calls

vars == <<langMap, op, result, stack>>

(***************************************************************************)
(* Bounds of the model.                                                    *)
(***************************************************************************)
MaxRules == 3        \* rule lines given to the constructor
MaxAlts == 2         \* alternatives addExpression may accumulate per symbol
MaxFileLines == 2    \* lines of a file read by updateMap

(***************************************************************************)
(* Delimiters: the defaults of __init__.                                   *)
(***************************************************************************)
symDelim == <<":", ":", "=">>
exprDelim == <<"|">>

(***************************************************************************)
(* Python str operations.                                                  *)
(***************************************************************************)
\* index of the first occurrence of d in s at or after position i, 0 if none
RECURSIVE Find(_, _, _)
Find(s, d, i) ==
    IF i + Len(d) - 1 > Len(s) THEN 0
    ELSE IF SubSeq(s, i, i + Len(d) - 1) = d THEN i
    ELSE Find(s, d, i + 1)

\* d in s, for two str
StrIn(d, s) == Find(s, d, 1) # 0

\* s.split(d) for a non-empty separator d
RECURSIVE split(_, _)
split(s, d) ==
    LET p == Find(s, d, 1) IN
    IF p = 0 THEN <<s>>
    ELSE <<SubSeq(s, 1, p - 1)>> \o split(SubSeq(s, p + Len(d), Len(s)), d)

\* the characters str.strip() removes that occur in the model
Whitespace == {" ", "\n", "\t"}

RECURSIVE lstrip(_)
lstrip(s) ==
    IF s # <<>> /\ Head(s) \in Whitespace THEN lstrip(Tail(s)) ELSE s

RECURSIVE rstrip(_)
rstrip(s) ==
    IF s # <<>> /\ s[Len(s)] \in Whitespace
    THEN rstrip(SubSeq(s, 1, Len(s) - 1)) ELSE s

\* s.strip()
strip(s) == rstrip(lstrip(s))

(***************************************************************************)
(* Python dict operations on langMap.                                      *)
(***************************************************************************)
\* k in self.langMap
HasKey(m, k) == \E i \in 1..Len(m) : m[i].k = k

\* self.langMap[k]
Get(m, k) == m[CHOOSE i \in 1..Len(m) : m[i].k = k].v

\* list(self.langMap.keys())
Keys(m) == [i \in 1..Len(m) |-> m[i].k]

\* self.langMap.update({k: v}): an existing key keeps its position
update(m, k, v) ==
    IF HasKey(m, k)
    THEN [i \in 1..Len(m) |-> IF m[i].k = k THEN [k |-> k, v |-> v] ELSE m[i]]
    ELSE Append(m, [k |-> k, v |-> v])

(***************************************************************************)
(* __init__: the loop over the rule lines.                                 *)
(***************************************************************************)
\* the variant that skips a malformed line and goes on with the next one
RECURSIVE ctorLoopContinue(_, _)
ctorLoopContinue(m, rs) ==
    IF rs = <<>> THEN m
    ELSE LET i == Head(rs) IN
         IF ~StrIn(symDelim, i) THEN ctorLoopContinue(m, Tail(rs))
         ELSE LET line == split(i, symDelim)
                  expressions == split(line[2], exprDelim)
              IN ctorLoopContinue(update(m, line[1], expressions), Tail(rs))

\* for i in rules: ... ; a line without symDelim ends the construction
RECURSIVE ctorLoop(_, _)
ctorLoop(m, rs) ==
    IF rs = <<>> THEN m
    ELSE LET i == Head(rs) IN
         IF ~StrIn(symDelim, i) THEN m
         ELSE LET line == split(i, symDelim)
                  expressions == split(line[2], exprDelim)
              IN ctorLoop(update(m, line[1], expressions), Tail(rs))

\* the lines __init__ prints
RECURSIVE ctorPrinted(_)
ctorPrinted(rs) ==
    IF rs = <<>> THEN <<>>
    ELSE IF ~StrIn(symDelim, Head(rs)) THEN <<[msg |-> "Malformed rule: ", line |-> Head(rs)]>>
    ELSE ctorPrinted(Tail(rs))

\* GrammarBuddyHelper(rules).langMap
Ctor(rs) == ctorLoop(<<>>, rs)

\* everything GrammarBuddyHelper(rules) prints
CtorOutput(rs) ==
    (IF rs = <<>> THEN <<[msg |-> "!WARNING: Rule set cannot be empty", line |-> <<>>]>> ELSE <<>>)
    \o ctorPrinted(rs)

(***************************************************************************)
(* The operations of the class, as functions of langMap.                   *)
(***************************************************************************)
\* the variant the docstring describes: an existing symbol is left alone
addSymbolIfAbsent(m, symbol) ==
    IF HasKey(m, symbol) THEN m ELSE update(m, symbol, <<>>)

\* addSymbol: add = {symbol: []}; self.langMap.update(add)
addSymbol(m, symbol) == update(m, symbol, <<>>)

\* addExpression
addExpression(m, symbol, expression) ==
    IF HasKey(m, symbol)
    THEN update(m, symbol, Append(Get(m, symbol), expression))
    ELSE update(addSymbol(m, symbol), symbol, <<expression>>)

\* term in i, for a list i of str
ListIn(term, l) == \E j \in 1..Len(l) : l[j] = term

\* the variant that looks for term inside the alternatives
RECURSIVE containsSubstring(_, _)
containsSubstring(m, term) ==
    IF HasKey(m, term) THEN TRUE
    ELSE IF m = <<>> THEN FALSE
    ELSE IF \E j \in 1..Len(Head(m).v) : StrIn(term, Head(m).v[j]) THEN TRUE
    ELSE containsSubstring(Tail(m), term)

\* for i in self.langMap.values(): if term in i: return True
RECURSIVE containsValues(_, _)
containsValues(m, term) ==
    IF m = <<>> THEN FALSE
    ELSE IF ListIn(term, Head(m).v) THEN TRUE
    ELSE containsValues(Tail(m), term)

\* contains
contains(m, term) ==
    IF ListIn(term, Keys(m)) THEN TRUE ELSE containsValues(m, term)

\* saveMap: the inner loop, for v in self.langMap[k]
RECURSIVE saveLine(_, _, _)
saveLine(line, l, j) ==
    IF j > Len(l) THEN line
    ELSE IF l[j] = l[Len(l)]
         THEN saveLine(line \o l[j], l, j + 1)
         ELSE saveLine(line \o l[j] \o exprDelim, l, j + 1)

\* saveMap: what is written to the file, one write per key
saveMap(m) ==
    [i \in 1..Len(m) |-> saveLine(m[i].k \o symDelim, m[i].v, 1) \o <<"\n">>]

\* updateMap: for expr in rule.split(symDelim)[1].split(exprDelim)
RECURSIVE updateExprs(_, _, _)
updateExprs(m, symbol, exprs) ==
    IF exprs = <<>> THEN m
    ELSE updateExprs(addExpression(m, symbol, Head(exprs)), symbol, Tail(exprs))

\* updateMap: for rule in file; a line without symDelim raises IndexError
\* at rule.split(symDelim)[1], after addSymbol has run for that line
RECURSIVE updateLoop(_, _)
updateLoop(m, file) ==
    IF file = <<>> THEN [m |-> m, kind |-> "ok"]
    ELSE LET rule == Head(file)
             parts == split(rule, symDelim)
             m1 == addSymbol(m, parts[1])
         IN IF Len(parts) < 2 THEN [m |-> m1, kind |-> "IndexError"]
            ELSE updateLoop(updateExprs(m1, parts[1], split(parts[2], exprDelim)),
                            Tail(file))

\* the __main__ loader: rules.append(line.strip()) for each line of the file
LoadRules(file) == [i \in 1..Len(file) |-> strip(file[i])]

(***************************************************************************)
(* Inputs of the mutation/query/serialization specification.               *)
(***************************************************************************)
X == <<"x">>
Y == <<"y">>
A == <<"a">>
B == <<"b">>
AB == <<"a", " ", "b">>
NL == <<"\n">>

SymbolPool == {X, Y}
ExprPool == {A, AB}
TermPool == {X, A, B, <<"z">>}
RulePool == {X \o symDelim \o A,
             X \o symDelim \o A \o exprDelim \o A,
             Y \o symDelim \o AB \o exprDelim \o B,
             Y \o symDelim \o B \o symDelim \o A,
             <<"b", "a", "d">>}
FilePool == {X \o symDelim \o A \o exprDelim \o B \o NL,
             <<"b", "a", "d">> \o NL}

SeqsUpTo(S, n) == UNION {[1..k -> S] : k \in 0..n}

None == [kind |-> "ok", value |-> <<>>]

(***************************************************************************)
(* Specification of the mutation, query and serialization operations.      *)
(***************************************************************************)
Init ==
    \E rs \in SeqsUpTo(RulePool, MaxRules) :
        /\ langMap = Ctor(rs)
        /\ op = [name |-> "init", a1 |-> rs, a2 |-> <<>>]
        /\ result = [kind |-> "ok", value |-> CtorOutput(rs)]
        /\ stack = <<>>

AddSymbol(symbol) ==
    /\ langMap' = addSymbol(langMap, symbol)
    /\ op' = [name |-> "addSymbol", a1 |-> symbol, a2 |-> <<>>]
    /\ result' = None
    /\ UNCHANGED stack

AddExpression(symbol, expression) ==
    /\ HasKey(langMap, symbol) => Len(Get(langMap, symbol)) < MaxAlts
    /\ langMap' = addExpression(langMap, symbol, expression)
    /\ op' = [name |-> "addExpression", a1 |-> symbol, a2 |-> expression]
    /\ result' = None
    /\ UNCHANGED stack

Contains(term) ==
    /\ op' = [name |-> "contains", a1 |-> term, a2 |-> <<>>]
    /\ result' = [kind |-> "ok", value |-> contains(langMap, term)]
    /\ UNCHANGED <<langMap, stack>>

SaveMap ==
    /\ op' = [name |-> "saveMap", a1 |-> <<>>, a2 |-> <<>>]
    /\ result' = [kind |-> "ok", value |-> saveMap(langMap)]
    /\ UNCHANGED <<langMap, stack>>

UpdateMap(file) ==
    LET r == updateLoop(langMap, file) IN
    /\ langMap' = r.m
    /\ op' = [name |-> "updateMap", a1 |-> file, a2 |-> <<>>]
    /\ result' = [kind |-> r.kind, value |-> <<>>]
    /\ UNCHANGED stack

\* a second object built from the file saveMap has just written
Reload ==
    /\ op.name = "saveMap"
    /\ op' = [name |-> "reload", a1 |-> result.value, a2 |-> <<>>]
    /\ result' = [kind |-> "ok", value |-> Ctor(LoadRules(result.value))]
    /\ UNCHANGED <<langMap, stack>>

Next ==
    \/ \E s \in SymbolPool : AddSymbol(s)
    \/ \E s \in SymbolPool, e \in ExprPool : AddExpression(s, e)
    \/ \E t \in TermPool : Contains(t)
    \/ SaveMap
    \/ \E f \in SeqsUpTo(FilePool, MaxFileLines) : UpdateMap(f)

Spec == Init /\ [][Next]_vars

(***************************************************************************)
(* Specification of construction, serialization and construction again     *)
(* from the saved file: the object is constructed and then only read.      *)
(***************************************************************************)
NextCtor ==
    \/ SaveMap
    \/ Reload
    \/ \E t \in TermPool : Contains(t)

SpecCtor == Init /\ [][NextCtor]_vars

(***************************************************************************)
(* generate, one step at a time.  An activation record of generate holds   *)
(* its symbol, the tokens of the chosen expression (iterableExpressions),  *)
(* the position i of the for loop in them, and the accumulator term.       *)
(* random.randint is a nondeterministic choice of the index.  An exception *)
(* is caught nowhere in generate, so it unwinds every activation record.   *)
(***************************************************************************)
RecursionLimit == 4  \* depth at which the interpreter raises RecursionError

NotFoundMsg ==
    <<"S", "y", "m", "b", "o", "l", " ", "n", "o", "t", " ", "f", "o", "u",
      "n", "d", " ", "i", "n", " ", "g", "r", "a", "m", "m", "a", "r", ":", " ">>

Running == [kind |-> "running", value |-> <<>>]

\* random.randint(0, len(rule)-1) on an empty rule
EmptyRange == [kind |-> "ValueError", value |-> "empty range for randrange()"]

TooDeep == [kind |-> "RecursionError", value |-> "maximum recursion depth exceeded"]

\* the activation record after expression = rule[j]; iterableExpressions = expression.split(' ')
Frame(symbol, expression) ==
    [symbol |-> symbol, tokens |-> split(expression, <<" ">>), i |-> 1, term |-> <<>>]

\* the call generate(symbol) made with the activation records st below it
Enter(st, symbol) ==
    IF Get(langMap, symbol) = <<>>
    THEN /\ stack' = <<>>
         /\ result' = EmptyRange
    ELSE IF Len(st) >= RecursionLimit
    THEN /\ stack' = <<>>
         /\ result' = TooDeep
    ELSE \E j \in 1..Len(Get(langMap, symbol)) :
            /\ stack' = Append(st, Frame(symbol, Get(langMap, symbol)[j]))
            /\ result' = Running

\* a call of generate from outside
Generate(symbol) ==
    /\ stack = <<>>
    /\ op' = [name |-> "generate", a1 |-> symbol, a2 |-> <<>>]
    /\ IF ~HasKey(langMap, symbol)
       THEN /\ result' = [kind |-> "ok", value |-> NotFoundMsg \o symbol]
            /\ stack' = <<>>
       ELSE Enter(stack, symbol)
    /\ UNCHANGED langMap

\* the variant of the loop body that never moves on to the next token
GenTokenStuck ==
    /\ stack # <<>>
    /\ LET top == stack[Len(stack)] IN
       /\ top.i <= Len(top.tokens)
       /\ IF HasKey(langMap, top.tokens[top.i])
          THEN Enter(stack, top.tokens[top.i])
          ELSE /\ stack' = [stack EXCEPT ![Len(stack)] =
                               [top EXCEPT !.term = top.tokens[top.i] \o <<" ">>]]
               /\ result' = result
    /\ UNCHANGED <<langMap, op>>

\* one pass of the loop body: for i in iterableExpressions
GenToken ==
    /\ stack # <<>>
    /\ LET top == stack[Len(stack)] IN
       /\ top.i <= Len(top.tokens)
       /\ IF HasKey(langMap, top.tokens[top.i])
          THEN Enter(stack, top.tokens[top.i])
          ELSE /\ stack' = [stack EXCEPT ![Len(stack)] =
                               [top EXCEPT !.term = @ \o top.tokens[top.i] \o <<" ">>,
                                           !.i = @ + 1]]
               /\ result' = result
    /\ UNCHANGED <<langMap, op>>

\* return term: to the caller's term += self.generate(i).strip() + ' ',
\* or to the outside
GenReturn ==
    /\ stack # <<>>
    /\ LET top == stack[Len(stack)] IN
       /\ top.i > Len(top.tokens)
       /\ IF Len(stack) = 1
          THEN /\ stack' = <<>>
               /\ result' = [kind |-> "ok", value |-> top.term]
          ELSE LET caller == stack[Len(stack) - 1] IN
               /\ stack' = [SubSeq(stack, 1, Len(stack) - 1) EXCEPT ![Len(stack) - 1] =
                               [caller EXCEPT !.term = @ \o strip(top.term) \o <<" ">>,
                                              !.i = @ + 1]]
               /\ result' = result
    /\ UNCHANGED <<langMap, op>>

(***************************************************************************)
(* Inputs of the generation specification.                                 *)
(***************************************************************************)
S == <<"s">>
P == <<"p">>
Q == <<"q">>
SymX == <<"<", "x", ">">>
SymY == <<"<", "y", ">">>

\* the rule lines "<x> ::= a | b" and "<y> ::= <x> c"
ExampleRules ==
    << SymX \o <<" ">> \o symDelim \o <<" ", "a", " ">> \o exprDelim \o <<" ", "b">>,
       SymY \o <<" ">> \o symDelim \o <<" ">> \o SymX \o <<" ", "c">> >>

GenRulePool ==
    {ExampleRules[1],
     ExampleRules[2],
     S \o symDelim \o P \o <<" ">> \o Q \o exprDelim \o <<"t">>,
     P \o symDelim \o Q,
     Q \o symDelim \o P,
     Q \o symDelim \o <<"u">> \o exprDelim \o <<"v">>}
GenFilePool == {P \o symDelim \o Q \o NL}
GenSymbolPool == {Q}
GenRootPool == {S, P, Q, SymY, SymY \o <<" ">>}

(***************************************************************************)
(* Specification of generation: between two generations the grammar is     *)
(* mutated by addSymbol and updateMap.                                     *)
(***************************************************************************)
InitGen ==
    \E rs \in SeqsUpTo(GenRulePool, MaxRules) :
        /\ langMap = Ctor(rs)
        /\ op = [name |-> "init", a1 |-> rs, a2 |-> <<>>]
        /\ result = [kind |-> "ok", value |-> CtorOutput(rs)]
        /\ stack = <<>>

NextGen ==
    \/ \E s \in GenRootPool : Generate(s)
    \/ GenToken
    \/ GenReturn
    \/ \E s \in GenSymbolPool : stack = <<>> /\ AddSymbol(s)
    \/ \E f \in SeqsUpTo(GenFilePool, 1) : stack = <<>> /\ UpdateMap(f)

SpecGen == InitGen /\ [][NextGen]_vars

\* a call that has started runs on: the interpreter executes the next statement
FairSpecGen == SpecGen /\ WF_vars(GenToken) /\ WF_vars(GenReturn)

(***************************************************************************)
(* Vocabulary of the properties.                                           *)
(***************************************************************************)
\* the mapping as a set of (symbol, alternatives) entries, order forgotten
Entries(m) == {m[i] : i \in 1..Len(m)}

UniqueKeys(m) == \A i, j \in 1..Len(m) : m[i].k = m[j].k => i = j

SameMapping(m1, m2) ==
    /\ UniqueKeys(m1) /\ UniqueKeys(m2)
    /\ Entries(m1) = Entries(m2)

WellFormedLine(l) == StrIn(symDelim, l)

\* the symbol and the alternatives a well-formed rule line gives
SymbolOf(l) == split(l, symDelim)[1]
AltsOf(l) == split(split(l, symDelim)[2], exprDelim)

\* position of the first line without symDelim, Len + 1 if there is none
FirstMalformed(rs) ==
    IF \A i \in 1..Len(rs) : WellFormedLine(rs[i]) THEN Len(rs) + 1
    ELSE CHOOSE i \in 1..Len(rs) :
            /\ ~WellFormedLine(rs[i])
            /\ \A j \in 1..(i - 1) : WellFormedLine(rs[j])

\* alt1 + d + alt2 + ... + d + altN
RECURSIVE Join(_, _)
Join(l, d) ==
    IF l = <<>> THEN <<>>
    ELSE IF Len(l) = 1 THEN l[1]
    ELSE l[1] \o d \o Join(Tail(l), d)

\* the alternatives a file gives for symbol k, in file order
RECURSIVE FileAlts(_, _)
FileAlts(file, k) ==
    IF file = <<>> THEN <<>>
    ELSE (IF SymbolOf(Head(file)) = k THEN AltsOf(Head(file)) ELSE <<>>)
         \o FileAlts(Tail(file), k)

(***************************************************************************)
(* C1: addSymbol(s) leaves the whole mapping unchanged when s is already a *)
(* key, and inserts s with an empty alternative list when s is absent.     *)
(***************************************************************************)
C1_AddSymbolKeepsExisting ==
    [][op'.name = "addSymbol" =>
         IF HasKey(langMap, op'.a1)
         THEN langMap' = langMap
         ELSE langMap' = Append(langMap, [k |-> op'.a1, v |-> <<>>])]_vars

(***************************************************************************)
(* C2: after updateMap on a file of well-formed rule lines, every symbol   *)
(* that was a key is still a key and its alternative list is its prior     *)
(* list followed by the alternatives the file gives for it, in file order. *)
(***************************************************************************)
C2_UpdateMapMergesAdditively ==
    [][(op'.name = "updateMap"
        /\ \A i \in 1..Len(op'.a1) : WellFormedLine(op'.a1[i])) =>
         \A i \in 1..Len(langMap) :
            /\ HasKey(langMap', langMap[i].k)
            /\ Get(langMap', langMap[i].k)
                 = langMap[i].v \o FileAlts(op'.a1, langMap[i].k)]_vars

(***************************************************************************)
(* C4: construction stops at the first rule line without symDelim: the     *)
(* grammar holds exactly the entries of the lines before it, the last      *)
(* definition of a symbol winning, and nothing of that line or later ones. *)
(***************************************************************************)
C4_ConstructionAbortsAtFirstMalformed ==
    op.name = "init" =>
        LET rs == op.a1
            n == FirstMalformed(rs)
            last == {i \in 1..(n - 1) :
                        \A j \in (i + 1)..(n - 1) : SymbolOf(rs[j]) # SymbolOf(rs[i])}
        IN /\ UniqueKeys(langMap)
           /\ Entries(langMap) = {[k |-> SymbolOf(rs[i]), v |-> AltsOf(rs[i])] : i \in last}

\* a construction that stopped at a malformed second line, with a
\* well-formed line for another symbol after it
C4_Witness ==
    /\ op.name = "init"
    /\ Len(op.a1) = 3
    /\ WellFormedLine(op.a1[1])
    /\ ~WellFormedLine(op.a1[2])
    /\ WellFormedLine(op.a1[3])
    /\ SymbolOf(op.a1[3]) # SymbolOf(op.a1[1])
    /\ Len(langMap) = 1

(***************************************************************************)
(* C5: saveMap writes, for every key in iteration order, one line          *)
(* symbol + symDelim + the alternatives joined by exprDelim, with exactly  *)
(* one exprDelim between consecutive alternatives and none after the last. *)
(***************************************************************************)
C5_SaveMapJoinsAlternatives ==
    op.name = "saveMap" =>
        result.value = [i \in 1..Len(langMap) |->
            langMap[i].k \o symDelim \o Join(langMap[i].v, exprDelim) \o <<"\n">>]

(***************************************************************************)
(* C6: a grammar constructed from rule lines, saved with saveMap and       *)
(* constructed again from the saved lines has the same symbols with the    *)
(* same ordered alternative lists as the first construction.               *)
(***************************************************************************)
C6_RoundTrip ==
    op.name = "reload" => SameMapping(result.value, langMap)

(***************************************************************************)
(* C9: contains(term) is true exactly when term is a key or equals a whole *)
(* stored alternative of some key, and contains leaves the grammar as is.  *)
(***************************************************************************)
C9_ContainsKeyOrWholeAlternative ==
    /\ [](op.name = "contains" =>
            (result.value = TRUE <=>
                \/ \E i \in 1..Len(langMap) : langMap[i].k = op.a1
                \/ \E i \in 1..Len(langMap) :
                      \E j \in 1..Len(langMap[i].v) : langMap[i].v[j] = op.a1))
    /\ [][op'.name = "contains" => langMap' = langMap]_vars

\* contains answered False for a term that is a token inside a stored
\* alternative, and neither a key nor a whole alternative
C9_Witness ==
    /\ op.name = "contains"
    /\ result.value = FALSE
    /\ \E i \in 1..Len(langMap) : \E j \in 1..Len(langMap[i].v) :
          /\ StrIn(op.a1, langMap[i].v[j])
          /\ ListIn(op.a1, split(langMap[i].v[j], <<" ">>))

(***************************************************************************)
(* The symbol-reference graph of a grammar.                                *)
(***************************************************************************)
KeySet(m) == {m[i].k : i \in 1..Len(m)}

TokensOf(expression) ==
    {split(expression, <<" ">>)[n] : n \in 1..Len(split(expression, <<" ">>))}

\* the keys some alternative of k refers to
Succ(m, k) ==
    {t \in UNION {TokensOf(Get(m, k)[j]) : j \in 1..Len(Get(m, k))} : HasKey(m, t)}

RECURSIVE Closure(_, _, _)
Closure(m, ks, n) ==
    IF n = 0 THEN ks
    ELSE Closure(m, ks \cup UNION {Succ(m, k) : k \in ks}, n - 1)

\* the keys reachable from k by one reference or more
ReachPlus(m, k) == Closure(m, Succ(m, k), Len(m))

Acyclic(m, root) ==
    \A k \in {root} \cup ReachPlus(m, root) : k \notin ReachPlus(m, k)

AllNonEmpty(m, root) ==
    \A k \in {root} \cup ReachPlus(m, root) : Get(m, k) # <<>>

\* the keys with a derivation that ends: least fixed point
RECURSIVE CanEnd(_, _, _)
CanEnd(m, ks, n) ==
    IF n = 0 THEN ks
    ELSE CanEnd(m,
                {k \in KeySet(m) :
                    \E j \in 1..Len(Get(m, k)) :
                        \A t \in TokensOf(Get(m, k)[j]) : HasKey(m, t) => t \in ks},
                n - 1)

Terminating(m) == CanEnd(m, {}, Len(m) + 1)

Returned == op.name = "generate" /\ stack = <<>>

(***************************************************************************)
(* C3: generate on a symbol whose alternative list is empty fails with an  *)
(* identifiable "empty alternative list" error, not with a returned string *)
(* and not with an unrelated error.                                        *)
(***************************************************************************)
C3_EmptyAlternativeListError ==
    (Returned /\ HasKey(langMap, op.a1) /\ Get(langMap, op.a1) = <<>>) =>
        result.kind = "EmptyAlternativeList"

(***************************************************************************)
(* C7: on the grammar constructed from "<x> ::= a | b" and                 *)
(* "<y> ::= <x> c", every generate("<y>") returns "a c " or "b c ".        *)
(***************************************************************************)
C7_ExampleGeneratesACOrBC ==
    (Returned /\ langMap = Ctor(ExampleRules) /\ op.a1 = SymY) =>
        /\ result.kind = "ok"
        /\ result.value \in {<<"a", " ", "c", " ">>, <<"b", " ", "c", " ">>}

(***************************************************************************)
(* C8: whenever generate(symbol) returns for a symbol that is a key, no    *)
(* space-separated token of the returned string is a key of the grammar.   *)
(* (The empty tokens that the trailing space and doubled spaces give are   *)
(* not counted, which only weakens the statement.)                         *)
(***************************************************************************)
C8_NoKeyLeftUnexpanded ==
    (Returned /\ result.kind = "ok" /\ HasKey(langMap, op.a1)) =>
        \A t \in TokensOf(result.value) : t # <<>> => ~HasKey(langMap, t)

(***************************************************************************)
(* C10: a generate call whose reachable symbol-reference graph is acyclic  *)
(* and whose reachable symbols all have an alternative returns a string,   *)
(* whatever the random choices; a call on a symbol none of whose           *)
(* derivations ends never returns one.                                     *)
(***************************************************************************)
C10_GenerateTerminatesOnAcyclic ==
    /\ (stack # <<>> /\ Acyclic(langMap, op.a1) /\ AllNonEmpty(langMap, op.a1))
          ~> (stack = <<>> /\ result.kind = "ok")
    /\ []((Returned /\ HasKey(langMap, op.a1) /\ op.a1 \notin Terminating(langMap))
            => result.kind # "ok")

\* a returned generation over an acyclic grammar that went three calls deep
C10_Witness ==
    /\ Returned
    /\ result.kind = "ok"
    /\ HasKey(langMap, op.a1)
    /\ Acyclic(langMap, op.a1)
    /\ AllNonEmpty(langMap, op.a1)
    /\ \E k \in Succ(langMap, op.a1) : Succ(langMap, k) # {}

====
